---- MODULE Spec2Model ----
(***************************************************************************)
(* Model of src/database/import-google-buildings.py: the ingestion         *)
(* pipeline that fetches building shards per S2 cell, filters their rows   *)
(* to a country's bounds and loads them into the buildings table.          *)
(*                                                                         *)
(* Model of src/database/generate-regions.py: create_circle_polygon and     *)
(* create_subregion_geojson.                                               *)
(*                                                                         *)
(* The specifications share the actions below:                             *)
(*   Spec      main(): runs of the whole pipeline, which a kill may end    *)
(*             and a later run may follow on the same disk and table;      *)
(*   SpecLoad  import_csv_file on one complete shard, loaded twice, with   *)
(*             the shard's rows and the batch size drawn from bounded sets;*)
(*   SpecEvolve   main() on a store of two shards and a table that has     *)
(*             none or one of the columns of the migration;                *)
(*   SpecStart    the start of main() for any country argument and         *)
(*             configuration, with or without s2sphere;                    *)
(*   SpecRegions  create_circle_polygon for the regions of Uganda;         *)
(*   SpecSubregions  create_subregion_geojson for Uganda.                  *)
(***************************************************************************)
EXTENDS Integers, Sequences, FiniteSets, TLC

\* ------------------------------------------------------------------ bounds
\* Rows of a shard in SpecLoad.
MaxRows == 3
\* batch_size values tried in SpecLoad: 1..MaxBatchSize.
MaxBatchSize == 3
\* page_size of execute_values (1000 at line 245), scaled down so that a
\* batch longer than one page fits the model.
PageSize == 2
\* The default batch_size of import_csv_file (5000 at line 175), which main
\* uses, scaled down with PageSize; several pages long like the original.
DefaultBatchSize == 3
\* Runs of main() on the same work directory and table.
MaxRuns == 2
\* Cells of the country's covering, fetched in order 1..NumCells.
NumCells == 2
\* The latitudes and longitudes of bounding boxes are 0..MaxDegree.
MaxDegree == 3
\* num_points values tried besides the default: 1..MaxPoints.
MaxPoints == 4
\* The default num_points of create_circle_polygon (line 79).
DefaultNumPoints == 32
\* Rows that can still be read from a shard whose download broke off while
\* its body was written (all of them, if the shard is shorter).
CutRows == 1

Cells == 1..NumCells

NULL == "NULL"

\* ------------------------------------------------------ country and shards
\* The bounds of the country configuration (countries.json), in model units.
bounds == [min_lat |-> 1, max_lat |-> 3, min_lon |-> 1, max_lon |-> 3]

\* float(text) of a CSV field: the number a text parses to; a text outside
\* the domain raises ValueError.
FloatOf == [t \in {"0", "1", "2", "3", "4"} |->
              CASE t = "0" -> 0 [] t = "1" -> 1 [] t = "2" -> 2
                [] t = "3" -> 3 [] OTHER -> 4]

ParsesAsFloat(t) == t \in DOMAIN FloatOf

\* ST_GeomFromText(text, 4326): the geometry a well-known text denotes; a
\* text outside the domain makes the statement fail.
GeomFromText == [t \in {"POLYGON(a)", "POLYGON(b)", "MULTIPOLYGON(c)"} |->
                   CASE t = "POLYGON(a)" -> [type |-> "Polygon", shape |-> "a"]
                     [] t = "POLYGON(b)" -> [type |-> "Polygon", shape |-> "b"]
                     [] OTHER -> [type |-> "MultiPolygon", shape |-> "c"]]

ValidWkt(t) == t \in DOMAIN GeomFromText

\* ST_Multi(g): g as a multi-geometry.
ST_Multi(g) == [g EXCEPT !.type = "MultiPolygon"]

\* One CSV row of a shard, as csv.DictReader yields it.
CsvRow(lat, lon, geom, code, conf) ==
    [latitude |-> lat, longitude |-> lon, area_in_meters |-> "2",
     confidence |-> conf, geometry |-> geom, full_plus_code |-> code]

\* The value csv.DictReader gives a field the line has no text for (its
\* restval, None); no text of a field equals it.
restval == "<None>"

\* A line with fewer fields than the header, the latitude alone.
ShortRow(lat) ==
    [latitude |-> lat, longitude |-> restval, area_in_meters |-> restval,
     confidence |-> restval, geometry |-> restval, full_plus_code |-> restval]

\* The rows shards are made of: inside the bounds, on their edges, outside
\* them on either axis, with a malformed or an empty geometry, with a
\* latitude that is no number, and with the fields after the latitude
\* missing.
RowPool ==
    { CsvRow("2", "2", "POLYGON(a)", "p1", "1"),
      CsvRow("1", "3", "POLYGON(b)", "p2", "1"),
      CsvRow("3", "1", "MULTIPOLYGON(c)", "p3", ""),
      CsvRow("0", "2", "POLYGON(a)", "p4", "1"),
      CsvRow("2", "4", "POLYGON(b)", "p5", "1"),
      CsvRow("2", "2", "POLYGON((", "p6", "1"),
      CsvRow("2", "2", "", "p7", "1"),
      CsvRow("x", "2", "POLYGON(a)", "p8", "1"),
      ShortRow("2") }

RECURSIVE SeqsUpTo(_, _)
SeqsUpTo(S, n) ==
    IF n = 0 THEN {<<>>}
    ELSE LET shorter == SeqsUpTo(S, n - 1)
         IN  shorter \cup {Append(s, x) : s \in {t \in shorter : Len(t) = n - 1}, x \in S}

\* The shards the object store may serve in Spec: one with a malformed
\* geometry, one with a row on an edge of the bounds and a row outside them.
FallbackShard ==
    <<CsvRow("2", "2", "POLYGON(a)", "p1", "1"),
      CsvRow("2", "2", "POLYGON((", "p6", "1")>>

EdgeShard ==
    <<CsvRow("3", "1", "MULTIPOLYGON(c)", "p3", ""),
      CsvRow("0", "2", "POLYGON(a)", "p4", "1")>>

ShardPool == {FallbackShard, EdgeShard}

\* What the object store holds for a cell: nothing (404) or a shard.
Remotes ==
    {[status |-> "absent", rows |-> <<>>]}
      \cup {[status |-> "data", rows |-> s] : s \in ShardPool}

\* A scratch file: missing, of zero bytes, a truncated shard of which the
\* first n rows can be read, or the complete shard.
NoFile == [kind |-> "none", n |-> 0]
EmptyFile == [kind |-> "empty", n |-> 0]
PartialFile(rows) ==
    [kind |-> "partial", n |-> IF Len(rows) < CutRows THEN Len(rows) ELSE CutRows]
FullFile(rows) == [kind |-> "full", n |-> Len(rows)]

\* dest.exists() and dest.stat().st_size > 0
ExistsNonEmpty(f) == f.kind \in {"partial", "full"}

\* dest.exists()
Exists(f) == f.kind # "none"


\* --------------------------------------------------------- record stream
\* is_in_bounds with the comparisons strict: a centroid on an edge is outside.
is_in_bounds_strict(lat, lon, b) ==
    /\ b.min_lat < lat /\ lat < b.max_lat
    /\ b.min_lon < lon /\ lon < b.max_lon

\* is_in_bounds: inclusive on all four bounds.
is_in_bounds(lat, lon, b) ==
    /\ b.min_lat <= lat /\ lat <= b.max_lat
    /\ b.min_lon <= lon /\ lon <= b.max_lon

\* An optional number of a record: None, or the number.
None == [null |-> TRUE, val |-> 0]
Some(v) == [null |-> FALSE, val |-> v]

\* float(text) if text else None
OptFloat(t) == IF t \in {"", restval} THEN None ELSE Some(FloatOf[t])

\* What the body of the row loop of import_csv_file does with one row:
\* "typeerror" (float(None) raises TypeError, which line 215 does not
\* catch), "invalid" (ValueError caught, skipped), "outside" (skipped),
\* "nogeometry" (skipped) or "retained" (appended to the batch). A field
\* that is None or empty is falsy at lines 197, 198 and 202.
RowOutcome(row, b) ==
    IF row.latitude = restval THEN "typeerror"
    ELSE IF ~ParsesAsFloat(row.latitude) THEN "invalid"
    ELSE IF row.longitude = restval THEN "typeerror"
    ELSE IF ~ParsesAsFloat(row.longitude) THEN "invalid"
    ELSE IF ~is_in_bounds(FloatOf[row.latitude], FloatOf[row.longitude], b)
    THEN "outside"
    ELSE IF \/ (row.area_in_meters \notin {"", restval}
                  /\ ~ParsesAsFloat(row.area_in_meters))
            \/ (row.confidence \notin {"", restval}
                  /\ ~ParsesAsFloat(row.confidence))
    THEN "invalid"
    ELSE IF row.geometry \in {"", restval}
    THEN "nogeometry"
    ELSE "retained"

\* len(batch) >= batch_size (line 208)
BatchFull(b, size) == Len(b) >= size

\* The tuple (geometry, plus_code, confidence, area) import_csv_file appends
\* to the batch.
BatchRecord(row) ==
    [geometry |-> row.geometry, plus_code |-> row.full_plus_code,
     confidence |-> OptFloat(row.confidence), area |-> OptFloat(row.area_in_meters)]

\* ------------------------------------------------------------- database
\* A row of the buildings table that predates the pipeline.
OsmRow(src) ==
    [osm_id |-> "101", osm_type |-> "way",
     geometry |-> [type |-> "MultiPolygon", shape |-> "o"], source |-> src,
     external_id |-> NULL, confidence |-> None, area_m2 |-> None]

\* The INSERT statements with the plus code left out of the row: external_id
\* is NULL.
BuildingRowNoExternalId(rec) ==
    [osm_id |-> NULL, osm_type |-> "way",
     geometry |-> ST_Multi(GeomFromText[rec.geometry]), source |-> "google",
     external_id |-> NULL, confidence |-> rec.confidence,
     area_m2 |-> rec.area]

\* The row the INSERT statements of insert_batch build from a batch record.
BuildingRow(rec) ==
    [osm_id |-> NULL, osm_type |-> "way",
     geometry |-> ST_Multi(GeomFromText[rec.geometry]), source |-> "google",
     external_id |-> rec.plus_code, confidence |-> rec.confidence,
     area_m2 |-> rec.area]

\* The uniqueness constraint ON CONFLICT DO NOTHING rests on: one row per
\* provenance and external identifier; a NULL identifier conflicts with none.
Conflicts(rows, row) ==
    /\ row.external_id # NULL
    /\ \E k \in 1..Len(rows) :
          /\ rows[k].source = row.source
          /\ rows[k].external_id = row.external_id

\* The connection: idle, in a transaction with rows inserted and not yet
\* committed, or in a transaction an error has aborted.
IdleConn == [status |-> "idle", pending |-> <<>>]

\* The rows INSERT ... ON CONFLICT DO NOTHING adds for recs, given the rows
\* the statement sees.
RECURSIVE RowsAdded(_, _)
RowsAdded(seen, recs) ==
    IF recs = <<>> THEN <<>>
    ELSE LET row == BuildingRow(Head(recs))
         IN  IF Conflicts(seen, row)
             THEN RowsAdded(seen, Tail(recs))
             ELSE <<row>> \o RowsAdded(Append(seen, row), Tail(recs))

\* One INSERT ... VALUES ... ON CONFLICT DO NOTHING statement for recs: it
\* raises in an aborted transaction and on a malformed geometry, which
\* aborts the transaction; else its rows are pending and counted.
InsertStatement(c, tbl, recs) ==
    IF c.status = "inerror"
    THEN [conn |-> c, rowcount |-> -1, raised |-> TRUE]
    ELSE IF \E k \in 1..Len(recs) : ~ValidWkt(recs[k].geometry)
    THEN [conn |-> [c EXCEPT !.status = "inerror"], rowcount |-> -1, raised |-> TRUE]
    ELSE LET added == RowsAdded(tbl \o c.pending, recs)
         IN  [conn |-> [status |-> "intrans", pending |-> c.pending \o added],
              rowcount |-> Len(added), raised |-> FALSE]

\* execute_values(cur, sql, batch, page_size): one statement per page of
\* page_size records; cur.rowcount is that of the last statement executed.
RECURSIVE execute_values(_, _, _, _)
execute_values(c, tbl, recs, page_size) ==
    LET n == IF Len(recs) < page_size THEN Len(recs) ELSE page_size
        r == InsertStatement(c, tbl, SubSeq(recs, 1, n))
    IN  IF r.raised \/ n = Len(recs)
        THEN r
        ELSE execute_values(r.conn, tbl, SubSeq(recs, n + 1, Len(recs)), page_size)

\* conn.commit(): the pending rows of a transaction become table rows; the
\* commit of an aborted transaction rolls it back.
CommittedTable(tbl, c) ==
    IF c.status = "intrans" THEN tbl \o c.pending ELSE tbl

\* insert_batch without its calls of conn.rollback(): the connection stays as
\* the failed statement left it.
ConnRollbackSkipped(c) == c

\* conn.rollback()
ConnRollback(c) == IdleConn


\* ------------------------------------------------- country configuration
\* The country arguments tried: a configured code in three letter cases, a
\* second code in lower case, and a code that is configured nowhere.
CountryArgs == {"UGA", "uga", "Uga", "ken", "xyz"}

\* str.upper() on those arguments.
upper == [a \in CountryArgs |->
            CASE a \in {"UGA", "uga", "Uga"} -> "UGA"
              [] a = "ken" -> "KEN"
              [] OTHER -> "XYZ"]

\* sorted(country_configs.keys()), as a sequence.
SortedCodes(codes) ==
    SelectSeq(<<"KEN", "UGA", "XYZ">>, LAMBDA c : c \in codes)

\* The area of an S2 cell of level 4, in model units: the cells tile the
\* latitudes 0..MaxDegree in strips of two degrees of longitude, cell 1 at
\* the origin.
CellRect(c) ==
    [min_lat |-> 0, max_lat |-> MaxDegree,
     min_lon |-> 2 * (c - 1), max_lon |-> 2 * c]

\* Whether two closed rectangles share a point.
Intersects(r, b) ==
    /\ r.min_lat <= b.max_lat /\ b.min_lat <= r.max_lat
    /\ r.min_lon <= b.max_lon /\ b.min_lon <= r.max_lon

\* compute_s2_cells_for_bounds(bounds): without s2sphere the empty list
\* (lines 75-76), with it the covering of the rectangle of the bounds by
\* cells of the level (lines 79-90), a rectangle without area included.
compute_s2_cells_for_bounds(b, has_s2sphere) ==
    IF ~has_s2sphere THEN <<>>
    ELSE SelectSeq([c \in 1..NumCells |-> c], LAMBDA c : Intersects(CellRect(c), b))

\* countries.json with the one country the runs of Spec are for.
UgandaOnly == [code \in {"UGA"} |-> [name |-> "Uganda", bounds |-> bounds]]

\* get_country_config with the code looked up as it was given.
get_country_config_case_sensitive(country_code, configs, has_s2sphere) ==
    IF country_code \notin DOMAIN configs
    THEN [raised |-> "ValueError", available |-> SortedCodes(DOMAIN configs),
          s2_cells |-> <<>>]
    ELSE IF ~has_s2sphere
    THEN [raised |-> "RuntimeError", available |-> <<>>, s2_cells |-> <<>>]
    ELSE [raised |-> "none", available |-> <<>>,
          s2_cells |-> compute_s2_cells_for_bounds(configs[country_code].bounds,
                                                   has_s2sphere)]

\* get_country_config without the test of lines 111-115.
get_country_config_unchecked(country_code, configs, has_s2sphere) ==
    IF upper[country_code] \notin DOMAIN configs
    THEN [raised |-> "ValueError", available |-> SortedCodes(DOMAIN configs),
          s2_cells |-> <<>>]
    ELSE [raised |-> "none", available |-> <<>>,
          s2_cells |-> compute_s2_cells_for_bounds(
                           configs[upper[country_code]].bounds, has_s2sphere)]

\* get_country_config(country_code): the exception it raises, the codes its
\* ValueError lists, and the cells of the configuration it returns.
get_country_config(country_code, configs, has_s2sphere) ==
    IF upper[country_code] \notin DOMAIN configs
    THEN [raised |-> "ValueError", available |-> SortedCodes(DOMAIN configs),
          s2_cells |-> <<>>]
    ELSE IF ~has_s2sphere
    THEN [raised |-> "RuntimeError", available |-> <<>>, s2_cells |-> <<>>]
    ELSE [raised |-> "none", available |-> <<>>,
          s2_cells |-> compute_s2_cells_for_bounds(
                           configs[upper[country_code]].bounds, has_s2sphere)]

\* ------------------------------------------------------ apply_migration
\* The columns the migration adds to the buildings table.
ExtraColumns == {"source", "external_id", "confidence", "area_m2"}

\* The table before any migration: none of the columns, osm_id mandatory.
FreshSchema == [columns |-> {}, osm_id_not_null |-> TRUE]

\* The table the loads are made into.
EvolvedSchema == [columns |-> ExtraColumns, osm_id_not_null |-> FALSE]

\* The inline statements with ADD COLUMN in place of ADD COLUMN IF NOT
\* EXISTS: a column that exists makes the statement fail.
InlineMigrationSqlUnguarded(sch, tbl) ==
    IF sch.columns \cap ExtraColumns # {}
    THEN [raised |-> TRUE, schema |-> sch, table |-> tbl]
    ELSE [raised |-> FALSE,
          schema |-> [columns |-> sch.columns \cup ExtraColumns,
                      osm_id_not_null |-> FALSE],
          table |-> [k \in 1..Len(tbl) |->
                       IF tbl[k].source = NULL
                       THEN [tbl[k] EXCEPT !.source = "osm"] ELSE tbl[k]]]

\* The inline statements (lines 163-171): each column is added unless it
\* exists, source with the default 'osm', which the rows of the table take;
\* osm_id is made optional; the rows whose source is NULL get 'osm'. A row
\* of the model holds NULL in a column the table does not have.
InlineMigrationSql(sch, tbl) ==
    [raised |-> FALSE,
     schema |-> [columns |-> sch.columns \cup ExtraColumns,
                 osm_id_not_null |-> FALSE],
     table |-> [k \in 1..Len(tbl) |->
                  IF tbl[k].source = NULL
                  THEN [tbl[k] EXCEPT !.source = "osm"] ELSE tbl[k]]]

\* The statements of migrations/002_multi_source_buildings.sql (line 158):
\* the structural change alone, the columns added unless they exist and
\* osm_id made optional.
MigrationFileSql(sch, tbl) ==
    [raised |-> FALSE,
     schema |-> [columns |-> sch.columns \cup ExtraColumns,
                 osm_id_not_null |-> FALSE],
     table |-> tbl]

\* ------------------------------------------------------ generate-regions.py
\* Coordinates are whole millionths of a degree, the unit round(x, 6) keeps;
\* cosines and sines are whole thousandths.

\* The regions of COUNTRIES["UG"] (lines 45-56).
Regions ==
    { [code |-> "KAM", name |-> "Kampala",
       center |-> <<32582500, 347600>>, radius_km |-> 35],
      [code |-> "JIN", name |-> "Jinja",
       center |-> <<33204100, 424400>>, radius_km |-> 40],
      [code |-> "MBA", name |-> "Mbarara",
       center |-> <<30654500, -607200>>, radius_km |-> 50],
      [code |-> "GUL", name |-> "Gulu",
       center |-> <<32299700, 2774700>>, radius_km |-> 55],
      [code |-> "ARU", name |-> "Arua",
       center |-> <<30911000, 3030300>>, radius_km |-> 50],
      [code |-> "MBL", name |-> "Mbale",
       center |-> <<34175000, 1082100>>, radius_km |-> 45],
      [code |-> "LIR", name |-> "Lira",
       center |-> <<32540000, 2234700>>, radius_km |-> 50],
      [code |-> "FTP", name |-> "Fort Portal",
       center |-> <<30275000, 671000>>, radius_km |-> 45],
      [code |-> "MSK", name |-> "Masaka",
       center |-> <<31735000, -313600>>, radius_km |-> 40],
      [code |-> "SOR", name |-> "Soroti",
       center |-> <<33617300, 1714700>>, radius_km |-> 45],
      [code |-> "HMA", name |-> "Hoima",
       center |-> <<31352200, 1433100>>, radius_km |-> 50],
      [code |-> "KBL", name |-> "Kabale",
       center |-> <<29983300, -1250000>>, radius_km |-> 40] }

\* (cos, sin) of the angles 2 * pi * i / n for i = 0..n-1, in thousandths
\* (lines 86-88).
UnitCircle ==
    [n \in 1..(MaxPoints + 1) \cup {DefaultNumPoints} |->
        CASE n = 1 -> <<<<1000, 0>>>>
          [] n = 2 -> <<<<1000, 0>>, <<-1000, 0>>>>
          [] n = 3 -> <<<<1000, 0>>, <<-500, 866>>, <<-500, -866>>>>
          [] n = 4 -> <<<<1000, 0>>, <<0, 1000>>, <<-1000, 0>>,
                      <<0, -1000>>>>
          [] n = 5 -> <<<<1000, 0>>, <<309, 951>>, <<-809, 588>>,
                      <<-809, -588>>, <<309, -951>>>>
          [] n = 6 -> <<<<1000, 0>>, <<500, 866>>, <<-500, 866>>,
                      <<-1000, 0>>, <<-500, -866>>, <<500, -866>>>>
          [] OTHER ->
             <<<<1000, 0>>, <<981, 195>>, <<924, 383>>, <<831, 556>>,
             <<707, 707>>, <<556, 831>>, <<383, 924>>, <<195, 981>>,
             <<0, 1000>>, <<-195, 981>>, <<-383, 924>>, <<-556, 831>>,
             <<-707, 707>>, <<-831, 556>>, <<-924, 383>>, <<-981, 195>>,
             <<-1000, 0>>, <<-981, -195>>, <<-924, -383>>, <<-831, -556>>,
             <<-707, -707>>, <<-556, -831>>, <<-383, -924>>, <<-195, -981>>,
             <<0, -1000>>, <<195, -981>>, <<383, -924>>, <<556, -831>>,
             <<707, -707>>, <<831, -556>>, <<924, -383>>, <<981, -195>>>>]

Abs(x) == IF x < 0 THEN 0 - x ELSE x

\* math.cos(math.radians(latitude)) in thousandths, by the first two terms
\* of the series; exact to the thousandth for the latitudes of the regions.
CosLatitude(latitude) ==
    LET mrad == ((Abs(latitude) \div 1000) * 1745) \div 100000
    IN  1000 - (mrad * mrad) \div 2000

\* km_to_degrees(km, latitude): km / (111 * lat_factor)
km_to_degrees(km, latitude) ==
    LET lat_factor == CosLatitude(latitude)
    IN  (((km * 1000000) \div 111) * 1000) \div lat_factor

\* round(x, 6) of a value given in thousandths of the unit.
round6(x) == (x + 500) \div 1000

\* The pair the loop of create_circle_polygon appends for index i
\* (lines 86-89).
CirclePoint(center_lon, center_lat, radius_deg, i, n) ==
    LET angle == UnitCircle[n][i + 1]
    IN  <<center_lon + round6(radius_deg * angle[1]),
          center_lat + round6(((radius_deg * angle[2]) \div 10) * 9)>>

\* create_circle_polygon returning the ring as the loop left it.
ClosedRingOmitted(cs) == cs

\* coords.append(coords[0]) (line 91)
ClosedRing(cs) == Append(cs, cs[1])

\* SUBREGIONS with the offsets of North and South exchanged.
SUBREGIONS_north_south_exchanged ==
    << [code |-> "C", name |-> "Central", offset |-> <<0, 0>>, radius_factor |-> 250],
       [code |-> "N", name |-> "North", offset |-> <<0, -650>>, radius_factor |-> 280],
       [code |-> "S", name |-> "South", offset |-> <<0, 650>>, radius_factor |-> 280],
       [code |-> "E", name |-> "East", offset |-> <<650, 0>>, radius_factor |-> 280],
       [code |-> "W", name |-> "West", offset |-> <<-650, 0>>, radius_factor |-> 280],
       [code |-> "NW", name |-> "Northwest", offset |-> <<-500, 500>>, radius_factor |-> 250],
       [code |-> "NE", name |-> "Northeast", offset |-> <<500, 500>>, radius_factor |-> 250],
       [code |-> "SW", name |-> "Southwest", offset |-> <<-500, -500>>, radius_factor |-> 250],
       [code |-> "SE", name |-> "Southeast", offset |-> <<500, -500>>, radius_factor |-> 250] >>

\* SUBREGIONS (lines 25-35) in the order of the dictionary, the offsets and
\* radius factors in thousandths.
SUBREGIONS ==
    << [code |-> "C", name |-> "Central", offset |-> <<0, 0>>, radius_factor |-> 250],
       [code |-> "N", name |-> "North", offset |-> <<0, 650>>, radius_factor |-> 280],
       [code |-> "S", name |-> "South", offset |-> <<0, -650>>, radius_factor |-> 280],
       [code |-> "E", name |-> "East", offset |-> <<650, 0>>, radius_factor |-> 280],
       [code |-> "W", name |-> "West", offset |-> <<-650, 0>>, radius_factor |-> 280],
       [code |-> "NW", name |-> "Northwest", offset |-> <<-500, 500>>, radius_factor |-> 250],
       [code |-> "NE", name |-> "Northeast", offset |-> <<500, 500>>, radius_factor |-> 250],
       [code |-> "SW", name |-> "Southwest", offset |-> <<-500, -500>>, radius_factor |-> 250],
       [code |-> "SE", name |-> "Southeast", offset |-> <<500, -500>>, radius_factor |-> 250] >>

\* The region codes of COUNTRIES["UG"]["regions"] in the order of the
\* dictionary (lines 45-56).
RegionOrder ==
    <<"KAM", "JIN", "MBA", "GUL", "ARU", "MBL", "LIR", "FTP", "MSK", "SOR",
      "HMA", "KBL">>

RegionOf(code) == CHOOSE r \in Regions : r.code = code

\* COUNTRIES["UG"] (lines 40-58), its regions in order.
Uganda ==
    [name |-> "Uganda",
     regions |-> [k \in 1..Len(RegionOrder) |-> RegionOf(RegionOrder[k])]]

\* create_circle_polygon as a function of the radius in degrees: the pairs
\* of the loop for i = 0..num_points-1, the first pair again, as the one
\* ring of the polygon (lines 85-92).
CirclePolygon(center_lon, center_lat, radius_deg, n) ==
    <<ClosedRing([k \in 1..n |->
                      CirclePoint(center_lon, center_lat, radius_deg, k - 1, n)])>>

\* The feature one pass of the inner loop of create_subregion_geojson
\* builds (lines 137-164). km_to_degrees is linear in the kilometres, so
\* the factors 0.5 (line 140) and radius_factor (line 144) are applied to
\* the degrees of the radius of the region.
SubregionFeature(region_info, sub_info) ==
    LET region_lon == region_info.center[1]
        region_lat == region_info.center[2]
        region_radius == region_info.radius_km
        offset_deg == km_to_degrees(region_radius, region_lat) \div 2
        sub_lon == region_lon + round6(sub_info.offset[1] * offset_deg)
        sub_lat == region_lat
                     + round6(((sub_info.offset[2] * offset_deg) \div 10) * 9)
        sub_radius_deg ==
            (km_to_degrees(region_radius, sub_lat) * sub_info.radius_factor)
                \div 1000
    IN  [code |-> region_info.code \o "-" \o sub_info.code,
         subregion_code |-> sub_info.code,
         name |-> sub_info.name \o " " \o region_info.name,
         level |-> 2,
         parent_code |-> region_info.code,
         center_lon |-> sub_lon,
         center_lat |-> sub_lat,
         coordinates |-> CirclePolygon(sub_lon, sub_lat, sub_radius_deg,
                                       DefaultNumPoints)]

\* ---------------------------------------------------------------- state
VARIABLES
    pc,               \* where the run is
    run,              \* the number of the run of main() (of the load, in SpecLoad)
    dry_run,          \* args.dry_run
    keep_files,       \* args.keep_files
    remote,           \* what the object store holds for each cell
    country,          \* args.country of the runs
    HAS_S2SPHERE,     \* whether the import of s2sphere succeeded (lines 36-40)
    country_configs,  \* what load_country_configs returns: countries.json
    migration_file,   \* whether migrations/002_multi_source_buildings.sql exists
    files,            \* the scratch file of each cell in the work directory
    migrated,         \* whether the schema migration has been committed
    schema,           \* the committed schema of the buildings table
    ddl_pending,      \* the migration executed in the open transaction, if any
    table,            \* the committed rows of the buildings table, oldest first
    conn,             \* the database connection
    s2_cells,         \* main's s2_cells
    connected,        \* whether psycopg2.connect has been called (line 352)
    listed,           \* the codes the error message of line 339 lists
    cell_idx,         \* the position of the download loop of main in s2_cells
    downloaded_files, \* main's downloaded_files, as cells
    file_idx,         \* the file the import loop or the cleanup loop is at
    batch_size,       \* import_csv_file's batch_size
    pos,              \* rows of the open shard the reader has yielded
    batch,            \* import_csv_file's batch
    imported,         \* import_csv_file's imported
    skipped,          \* import_csv_file's skipped
    caller,           \* the call of insert_batch: "loop" (line 209) or "final" (line 221)
    inserted,         \* insert_batch's inserted
    i,                \* the record the fallback loop of insert_batch is at
    total_imported,   \* main's total_imported
    total_skipped,    \* main's total_skipped
    \* history, read by the properties only
    path,             \* the branch the last insert_batch took: "bulk" or "fallback"
    table0,           \* the table when the current insert_batch was called
    table_open,       \* the table when the current import_csv_file was called
    retained,         \* the CSV rows the current import_csv_file appended to a batch
    fetched,          \* the outcome of download_file for each cell in this run
    requests,         \* the HTTP requests made for each cell in this run
    abort_reason,     \* the exception that ended the run, if one did
    prev_killed,      \* whether the run before this one was killed
    handed,           \* the batches the current import_csv_file gave to insert_batch
    evolutions,       \* the commits of apply_migration in this run
    \* generate-regions.py
    gen,              \* where the region generator is
    region,           \* the region a polygon is made for
    num_points,       \* create_circle_polygon's num_points
    coords,           \* create_circle_polygon's coords
    polygon,          \* what create_circle_polygon returned
    country_config,   \* create_subregion_geojson's country_config
    features          \* create_subregion_geojson's features

loadVars == <<pos, batch, imported, skipped, caller, inserted, i>>
histVars == <<path, table0, table_open, retained, fetched, requests,
              abort_reason, prev_killed, handed, evolutions>>
mainVars == <<run, dry_run, keep_files, s2_cells, connected, listed, cell_idx,
              downloaded_files, file_idx, batch_size, total_imported,
              total_skipped>>
envVars == <<remote, country, HAS_S2SPHERE, country_configs, migration_file>>
dbVars == <<migrated, schema, ddl_pending>>
regionVars == <<gen, region, num_points, coords, polygon, country_config,
                features>>
vars == <<pc, envVars, regionVars, files, dbVars, table, conn, mainVars,
          loadVars, histVars>>

\* The rows the reader can yield from the file of the cell being imported.
CurCell == downloaded_files[file_idx]
CurRows == SubSeq(remote[CurCell].rows, 1, files[CurCell].n)

\* ------------------------------------------------------ import_csv_file
\* One pass of the row loop (lines 187-217): the row is skipped and counted,
\* or appended; a batch that reached batch_size is handed to insert_batch.
\* The TypeError of a row leaves import_csv_file and main, which has no
\* handler around the call (line 393).
ReadRow ==
    /\ pc = "read"
    /\ pos < Len(CurRows)
    /\ LET row == CurRows[pos + 1]
           out == RowOutcome(row, bounds)
           nb == Append(batch, BatchRecord(row))
       IN  /\ pos' = pos + 1
           /\ IF out = "retained"
              THEN /\ batch' = nb
                   /\ retained' = Append(retained, row)
                   /\ skipped' = skipped
                   /\ abort_reason' = abort_reason
                   /\ IF BatchFull(nb, batch_size)
                      THEN pc' = "bulk" /\ caller' = "loop"
                      ELSE pc' = "read" /\ caller' = caller
              ELSE IF out = "typeerror"
              THEN /\ pc' = "aborted"
                   /\ abort_reason' = "TypeError"
                   /\ UNCHANGED <<batch, retained, skipped, caller>>
              ELSE /\ skipped' = skipped + 1
                   /\ abort_reason' = abort_reason
                   /\ UNCHANGED <<batch, retained, pc, caller>>
    /\ UNCHANGED <<envVars, regionVars, files, dbVars, table, conn, mainVars, imported,
                   inserted, i, path, table0, table_open, fetched, requests,
                   prev_killed, handed, evolutions>>

\* The end of a complete shard (lines 219-223): the remaining batch is
\* inserted, or the function returns.
EndOfStream ==
    /\ pc = "read"
    /\ files[CurCell].kind = "full"
    /\ pos = Len(CurRows)
    /\ IF batch # <<>>
       THEN pc' = "bulk" /\ caller' = "final"
       ELSE pc' = "loaded" /\ caller' = caller
    /\ UNCHANGED <<envVars, regionVars, files, dbVars, table, conn, mainVars, pos, batch,
                   imported, skipped, inserted, i, histVars>>

\* The reader reaches the end of a truncated shard: gzip raises EOFError,
\* which neither import_csv_file (line 215) nor main catches.
CorruptRead ==
    /\ pc = "read"
    /\ files[CurCell].kind = "partial"
    /\ pos = Len(CurRows)
    /\ pc' = "aborted"
    /\ abort_reason' = "CorruptShard"
    /\ conn' = IdleConn
    /\ UNCHANGED <<envVars, regionVars, files, dbVars, table, mainVars, loadVars, path,
                   table0, table_open, retained, fetched, requests, prev_killed, handed, evolutions>>

\* --------------------------------------------------------- insert_batch
\* Lines 233-247: the set-based insert of the batch.
BulkInsert ==
    /\ pc = "bulk"
    /\ LET r == execute_values(conn, table, batch, PageSize)
       IN  /\ conn' = r.conn
           /\ IF r.raised
              THEN pc' = "bulk_rollback" /\ inserted' = inserted
              ELSE pc' = "bulk_commit" /\ inserted' = r.rowcount
    /\ table0' = table
    /\ path' = "bulk"
    /\ handed' = Append(handed, batch)
    /\ UNCHANGED <<envVars, regionVars, files, dbVars, table, mainVars, pos, batch,
                   imported, skipped, caller, i, table_open, retained, fetched,
                   requests, abort_reason, prev_killed, evolutions>>

\* insert_batch returning after the bulk insert without conn.commit().
BulkCommitSkipped ==
    /\ pc = "bulk_commit"
    /\ pc' = "batch_done"
    /\ UNCHANGED <<envVars, regionVars, files, dbVars, table, conn, mainVars,
                   loadVars, histVars>>

\* Lines 248-249: commit and return.
BulkCommit ==
    /\ pc = "bulk_commit"
    /\ table' = CommittedTable(table, conn)
    /\ conn' = IdleConn
    /\ pc' = "batch_done"
    /\ UNCHANGED <<envVars, regionVars, files, dbVars, mainVars, loadVars, histVars>>

\* Lines 250-253: the failed bulk attempt is rolled back and the fallback
\* loop starts.
BulkRollback ==
    /\ pc = "bulk_rollback"
    /\ conn' = ConnRollback(conn)
    /\ inserted' = 0
    /\ i' = 1
    /\ path' = "fallback"
    /\ pc' = "row"
    /\ UNCHANGED <<envVars, regionVars, files, dbVars, table, mainVars, pos, batch, imported,
                   skipped, caller, table0, table_open, retained, fetched,
                   requests, abort_reason, prev_killed, handed, evolutions>>

\* Lines 254-261: the insert of one record of the batch.
RowInsert ==
    /\ pc = "row"
    /\ LET r == InsertStatement(conn, table, <<batch[i]>>)
       IN  /\ conn' = r.conn
           /\ IF r.raised
              THEN pc' = "row_rollback" /\ inserted' = inserted
              ELSE pc' = "row_commit" /\ inserted' = inserted + r.rowcount
    /\ UNCHANGED <<envVars, regionVars, files, dbVars, table, mainVars, pos, batch, imported,
                   skipped, caller, i, histVars>>

\* Line 262: the record's commit; after the last record, line 266 returns.
RowCommit ==
    /\ pc = "row_commit"
    /\ table' = CommittedTable(table, conn)
    /\ conn' = IdleConn
    /\ i' = i + 1
    /\ pc' = IF i = Len(batch) THEN "batch_done" ELSE "row"
    /\ UNCHANGED <<envVars, regionVars, files, dbVars, mainVars, pos, batch, imported,
                   skipped, caller, inserted, histVars>>

\* Lines 263-265: the failed record is rolled back and skipped.
RowRollback ==
    /\ pc = "row_rollback"
    /\ conn' = ConnRollback(conn)
    /\ i' = i + 1
    /\ pc' = IF i = Len(batch) THEN "batch_done" ELSE "row"
    /\ UNCHANGED <<envVars, regionVars, files, dbVars, table, mainVars, pos, batch, imported,
                   skipped, caller, inserted, histVars>>

\* insert_batch has returned: line 209-210 (the row loop goes on with an
\* empty batch) or line 221 (import_csv_file returns).
BatchReturn ==
    /\ pc = "batch_done"
    /\ imported' = imported + inserted
    /\ IF caller = "loop"
       THEN batch' = <<>> /\ pc' = "read"
       ELSE batch' = batch /\ pc' = "loaded"
    /\ UNCHANGED <<envVars, regionVars, files, dbVars, table, conn, mainVars, pos, skipped,
                   caller, inserted, i, histVars>>


\* -------------------------------------------------------- download_file
\* How a request for a cell can go: the response arrives whole ("ok"; a 404
\* when the store holds nothing), fails before its body ("error": timeout,
\* 5xx, connection refused), or breaks while the body is written: before
\* the first chunk ("cut0") or after some chunks ("cut").
NetOutcomes(rem) ==
    {"ok", "error"} \cup IF rem.status = "data" THEN {"cut0", "cut"} ELSE {}

\* download_file without the try of line 128: a failed request or a broken
\* body raises out of it.
download_file_unguarded(f, rem, net) ==
    IF ExistsNonEmpty(f)
    THEN [ret |-> TRUE, file |-> f, request |-> FALSE, raised |-> FALSE,
          status |-> "reused"]
    ELSE IF net = "error"
    THEN [ret |-> FALSE, file |-> f, request |-> TRUE, raised |-> TRUE,
          status |-> "failed"]
    ELSE IF rem.status = "absent"
    THEN [ret |-> FALSE, file |-> f, request |-> TRUE, raised |-> FALSE,
          status |-> "absent"]
    ELSE IF net = "cut0"
    THEN [ret |-> FALSE, file |-> EmptyFile, request |-> TRUE, raised |-> TRUE,
          status |-> "failed_writing"]
    ELSE IF net = "cut"
    THEN [ret |-> FALSE, file |-> PartialFile(rem.rows), request |-> TRUE,
          raised |-> TRUE, status |-> "failed_writing"]
    ELSE [ret |-> TRUE, file |-> FullFile(rem.rows), request |-> TRUE,
          raised |-> FALSE, status |-> "downloaded"]

\* download_file with line 123 testing dest.exists() alone: a file of zero
\* bytes is taken as downloaded.
download_file_exists_only(f, rem, net) ==
    IF Exists(f)
    THEN [ret |-> TRUE, file |-> f, request |-> FALSE, raised |-> FALSE,
          status |-> "reused"]
    ELSE IF net = "error"
    THEN [ret |-> FALSE, file |-> f, request |-> TRUE, raised |-> FALSE,
          status |-> "failed"]
    ELSE IF rem.status = "absent"
    THEN [ret |-> FALSE, file |-> f, request |-> TRUE, raised |-> FALSE,
          status |-> "absent"]
    ELSE IF net = "cut0"
    THEN [ret |-> FALSE, file |-> EmptyFile, request |-> TRUE, raised |-> FALSE,
          status |-> "failed_writing"]
    ELSE IF net = "cut"
    THEN [ret |-> FALSE, file |-> PartialFile(rem.rows), request |-> TRUE,
          raised |-> FALSE, status |-> "failed_writing"]
    ELSE [ret |-> TRUE, file |-> FullFile(rem.rows), request |-> TRUE,
          raised |-> FALSE, status |-> "downloaded"]

\* download_file(url, dest): what it returns, the file it leaves, whether it
\* made a request, and whether an exception left it (none does: line 139).
download_file(f, rem, net) ==
    IF ExistsNonEmpty(f)
    THEN [ret |-> TRUE, file |-> f, request |-> FALSE, raised |-> FALSE,
          status |-> "reused"]
    ELSE IF net = "error"
    THEN [ret |-> FALSE, file |-> f, request |-> TRUE, raised |-> FALSE,
          status |-> "failed"]
    ELSE IF rem.status = "absent"
    THEN [ret |-> FALSE, file |-> f, request |-> TRUE, raised |-> FALSE,
          status |-> "absent"]
    ELSE IF net = "cut0"
    THEN [ret |-> FALSE, file |-> EmptyFile, request |-> TRUE, raised |-> FALSE,
          status |-> "failed_writing"]
    ELSE IF net = "cut"
    THEN [ret |-> FALSE, file |-> PartialFile(rem.rows), request |-> TRUE,
          raised |-> FALSE, status |-> "failed_writing"]
    ELSE [ret |-> TRUE, file |-> FullFile(rem.rows), request |-> TRUE,
          raised |-> FALSE, status |-> "downloaded"]

\* ------------------------------------------------------------------ main
Terminal == {"done", "killed", "aborted", "exited"}

\* Where main goes when the download loop is over or has nothing to do:
\* a dry run returns (lines 379-382), any other run imports.
AfterDownloads(d) == IF d THEN "done" ELSE "import"

\* Line 355 without its test: the migration is applied in a dry run too.
AfterConnectAlwaysMigrates(d, cells) == "migrate"

\* Lines 355-369: the migration unless the run is a dry run, then the
\* download loop.
AfterConnect(d, cells) ==
    IF ~d THEN "migrate"
    ELSE IF cells = <<>> THEN AfterDownloads(d) ELSE "download"

\* Lines 329-352: the arguments are parsed, the country is resolved and the
\* database connection is opened. The ValueError of an unknown code is
\* printed and the process exits (lines 338-340); the RuntimeError of the
\* missing library leaves main.
StartRun ==
    /\ pc = "start"
    /\ \E d \in BOOLEAN, k \in BOOLEAN :
          LET r == get_country_config(country, country_configs, HAS_S2SPHERE)
          IN  /\ dry_run' = d
              /\ keep_files' = k
              /\ listed' = r.available
              /\ s2_cells' = r.s2_cells
              /\ connected' = (r.raised = "none")
              /\ pc' = CASE r.raised = "ValueError" -> "exited"
                          [] r.raised = "RuntimeError" -> "aborted"
                          [] OTHER -> AfterConnect(d, r.s2_cells)
              /\ abort_reason' = CASE r.raised = "ValueError" -> "UnknownCountry"
                                    [] r.raised = "RuntimeError" -> "MissingCapability"
                                    [] OTHER -> abort_reason
    /\ UNCHANGED <<envVars, regionVars, files, dbVars, table, conn, run, cell_idx,
                   downloaded_files, file_idx, batch_size, total_imported,
                   total_skipped, loadVars, path, table0, table_open, retained,
                   fetched, requests, prev_killed, handed, evolutions>>

\* apply_migration up to its commit: the statements of the migration file
\* (lines 153-158) or the inline ones (lines 161-171) are executed in a
\* transaction; a statement that fails leaves main.
ApplyMigration ==
    /\ pc = "migrate"
    /\ LET r == IF migration_file THEN MigrationFileSql(schema, table)
                ELSE InlineMigrationSql(schema, table)
       IN  IF r.raised
           THEN /\ pc' = "aborted"
                /\ abort_reason' = "MigrationError"
                /\ ddl_pending' = ddl_pending
                /\ conn' = [status |-> "inerror", pending |-> <<>>]
           ELSE /\ pc' = "migrate_commit"
                /\ abort_reason' = abort_reason
                /\ ddl_pending' = IF migration_file THEN "file" ELSE "inline"
                /\ conn' = [status |-> "intrans", pending |-> <<>>]
    /\ UNCHANGED <<envVars, regionVars, files, migrated, schema, table, mainVars,
                   loadVars, path, table0, table_open, retained, fetched,
                   requests, prev_killed, handed, evolutions>>

\* apply_migration returns without conn.commit(): the transaction of the
\* migration stays open.
CommitMigrationSkipped ==
    /\ pc = "migrate_commit"
    /\ pc' = IF s2_cells = <<>> THEN AfterDownloads(dry_run) ELSE "download"
    /\ UNCHANGED <<envVars, regionVars, files, dbVars, table, conn, mainVars,
                   loadVars, histVars>>

\* conn.commit() of apply_migration (lines 159, 172): the schema and the rows
\* the statements left become those of the table.
CommitMigration ==
    /\ pc = "migrate_commit"
    /\ LET r == IF ddl_pending = "file" THEN MigrationFileSql(schema, table)
                ELSE InlineMigrationSql(schema, table)
       IN  /\ schema' = r.schema
           /\ table' = r.table
    /\ migrated' = TRUE
    /\ ddl_pending' = "none"
    /\ conn' = IdleConn
    /\ evolutions' = evolutions + 1
    /\ pc' = IF s2_cells = <<>> THEN AfterDownloads(dry_run) ELSE "download"
    /\ UNCHANGED <<envVars, regionVars, files, mainVars, loadVars, path, table0,
                   table_open, retained, fetched, requests, abort_reason,
                   prev_killed, handed>>

\* One pass of the download loop (lines 369-375); after the last cell a dry
\* run closes the connection and returns (lines 379-382).
Download ==
    /\ pc = "download"
    /\ \E net \in NetOutcomes(remote[s2_cells[cell_idx]]) :
          LET c == s2_cells[cell_idx]
              r == download_file(files[c], remote[c], net)
          IN  /\ files' = [files EXCEPT ![c] = r.file]
              /\ requests' = [requests EXCEPT ![c] = @ + (IF r.request THEN 1 ELSE 0)]
              /\ fetched' = [fetched EXCEPT ![c] = r.status]
              /\ IF r.raised
                 THEN /\ pc' = "aborted"
                      /\ abort_reason' = "DownloadError"
                      /\ UNCHANGED <<cell_idx, downloaded_files>>
                 ELSE /\ downloaded_files' =
                           IF r.ret THEN Append(downloaded_files, c) ELSE downloaded_files
                      /\ cell_idx' = cell_idx + 1
                      /\ abort_reason' = abort_reason
                      /\ pc' = IF cell_idx < Len(s2_cells) THEN "download"
                               ELSE AfterDownloads(dry_run)
    /\ UNCHANGED <<envVars, regionVars, dbVars, table, conn, run, dry_run, keep_files, s2_cells, connected, listed,
                   file_idx, batch_size, total_imported, total_skipped, loadVars,
                   path, table0, table_open, retained, prev_killed, handed, evolutions>>

\* One pass of the import loop (lines 388-393): a file that is missing or
\* of zero bytes is passed over, any other is opened by import_csv_file.
ImportNext ==
    /\ pc = "import"
    /\ file_idx <= Len(downloaded_files)
    /\ IF ExistsNonEmpty(files[CurCell])
       THEN /\ pc' = "read"
            /\ pos' = 0
            /\ batch' = <<>>
            /\ imported' = 0
            /\ skipped' = 0
            /\ table_open' = table
            /\ retained' = <<>>
            /\ handed' = <<>>
            /\ UNCHANGED file_idx
       ELSE /\ file_idx' = file_idx + 1
            /\ UNCHANGED <<pc, pos, batch, imported, skipped, table_open, retained,
                           handed>>
    /\ UNCHANGED <<envVars, regionVars, files, dbVars, table, conn, run, dry_run, keep_files, s2_cells, connected, listed,
                   cell_idx, downloaded_files, batch_size, total_imported,
                   total_skipped, caller, inserted, i, path, table0, fetched,
                   requests, abort_reason, prev_killed, evolutions>>

\* Lines 393-396: import_csv_file has returned and its counts are added.
FinishImport ==
    /\ pc = "loaded"
    /\ total_imported' = total_imported + imported
    /\ total_skipped' = total_skipped + skipped
    /\ file_idx' = file_idx + 1
    /\ pc' = "import"
    /\ UNCHANGED <<envVars, regionVars, files, dbVars, table, conn, run, dry_run, keep_files, s2_cells, connected, listed,
                   cell_idx, downloaded_files, batch_size, loadVars, histVars>>

\* Lines 398-412: the report, the statistics and the close of the connection.
Report ==
    /\ pc = "import"
    /\ file_idx > Len(downloaded_files)
    /\ conn' = IdleConn
    /\ file_idx' = 1
    /\ pc' = IF keep_files \/ downloaded_files = <<>> THEN "done" ELSE "cleanup"
    /\ UNCHANGED <<envVars, regionVars, files, dbVars, table, run, dry_run, keep_files, s2_cells, connected, listed,
                   cell_idx, downloaded_files, batch_size, total_imported,
                   total_skipped, loadVars, histVars>>

\* One pass of the cleanup loop (lines 414-416).
Cleanup ==
    /\ pc = "cleanup"
    /\ files' = [files EXCEPT ![CurCell] = IF Exists(@) THEN NoFile ELSE @]
    /\ file_idx' = file_idx + 1
    /\ pc' = IF file_idx = Len(downloaded_files) THEN "done" ELSE "cleanup"
    /\ UNCHANGED <<envVars, regionVars, dbVars, table, conn, run, dry_run, keep_files, s2_cells, connected, listed,
                   cell_idx, downloaded_files, batch_size, total_imported,
                   total_skipped, loadVars, histVars>>

\* The memory of a process that has ended or not yet started: main's and
\* import_csv_file's variables, and the history of the run, at their first
\* values.
FreshProcess ==
    /\ dry_run' = FALSE
    /\ keep_files' = FALSE
    /\ cell_idx' = 1
    /\ downloaded_files' = <<>>
    /\ file_idx' = 1
    /\ total_imported' = 0
    /\ total_skipped' = 0
    /\ pos' = 0
    /\ batch' = <<>>
    /\ imported' = 0
    /\ skipped' = 0
    /\ caller' = "loop"
    /\ inserted' = 0
    /\ i' = 1
    /\ path' = "none"
    /\ table0' = table
    /\ table_open' = table
    /\ retained' = <<>>
    /\ fetched' = [c \in Cells |-> "none"]
    /\ requests' = [c \in Cells |-> 0]
    /\ abort_reason' = "none"
    /\ s2_cells' = <<>>
    /\ connected' = FALSE
    /\ listed' = <<>>
    /\ handed' = <<>>
    /\ evolutions' = 0

\* The process is terminated: its memory is gone and the server discards
\* the open transaction.
Kill ==
    /\ pc \notin Terminal \cup {"start"}
    /\ pc' = "killed"
    /\ conn' = IdleConn
    /\ ddl_pending' = "none"
    /\ FreshProcess
    /\ UNCHANGED <<envVars, regionVars, files, migrated, schema, table, run,
                   batch_size, prev_killed>>

\* The process is terminated while download_file writes the body of a
\* response (lines 135-137): the file holds what was written so far.
KillDuringDownload ==
    /\ pc = "download"
    /\ ~ExistsNonEmpty(files[s2_cells[cell_idx]])
    /\ remote[s2_cells[cell_idx]].status = "data"
    /\ \E f \in {EmptyFile, PartialFile(remote[s2_cells[cell_idx]].rows)} :
          files' = [files EXCEPT ![s2_cells[cell_idx]] = f]
    /\ pc' = "killed"
    /\ FreshProcess
    /\ UNCHANGED <<envVars, regionVars, dbVars, table, conn, run, batch_size,
                   prev_killed>>

\* main() is run again for the same country, on the work directory and the
\* table the run before left.
Restart ==
    /\ pc \in Terminal
    /\ run < MaxRuns
    /\ run' = run + 1
    /\ pc' = "start"
    /\ prev_killed' = (pc = "killed")
    /\ FreshProcess
    /\ UNCHANGED <<envVars, regionVars, files, dbVars, table, conn, batch_size>>

\* import_csv_file is called again on the same shard, as a later run has it,
\* on the table the load before left.
Reload ==
    /\ pc = "loaded"
    /\ run < MaxRuns
    /\ run' = run + 1
    /\ pc' = "read"
    /\ pos' = 0
    /\ batch' = <<>>
    /\ imported' = 0
    /\ skipped' = 0
    /\ table_open' = table
    /\ retained' = <<>>
    /\ handed' = <<>>
    /\ UNCHANGED <<envVars, regionVars, files, dbVars, table, conn, dry_run,
                   keep_files, s2_cells, connected, listed, cell_idx, downloaded_files,
                   file_idx, batch_size, total_imported, total_skipped, caller,
                   inserted, i, path, table0, fetched, requests, abort_reason,
                   prev_killed, evolutions>>

\* ------------------------------------------------- create_circle_polygon
\* create_circle_polygon is called for the region (line 101): coords is
\* empty (line 82).
CallCircle ==
    /\ gen = "idle"
    /\ gen' = "loop"
    /\ coords' = <<>>
    /\ UNCHANGED <<pc, envVars, files, dbVars, table, conn, mainVars, loadVars,
                   histVars, region, num_points, polygon, country_config,
                   features>>

\* One pass of the loop of lines 85-89.
AppendPoint ==
    /\ gen = "loop"
    /\ Len(coords) < num_points
    /\ coords' = Append(coords,
                        CirclePoint(region.center[1], region.center[2],
                                    km_to_degrees(region.radius_km, region.center[2]),
                                    Len(coords), num_points))
    /\ UNCHANGED <<pc, envVars, files, dbVars, table, conn, mainVars, loadVars,
                   histVars, gen, region, num_points, polygon,
                   country_config, features>>

\* After the loop (lines 91-92): the ring is closed and returned as the one
\* ring of the polygon.
CloseRing ==
    /\ gen = "loop"
    /\ Len(coords) = num_points
    /\ polygon' = <<ClosedRing(coords)>>
    /\ gen' = "returned"
    /\ UNCHANGED <<pc, envVars, files, dbVars, table, conn, mainVars, loadVars,
                   histVars, region, num_points, coords, country_config,
                   features>>

\* ---------------------------------------------- create_subregion_geojson
\* create_subregion_geojson is called (line 218): features is empty
\* (line 130).
CallSubregions ==
    /\ gen = "idle"
    /\ country_config.regions # <<>>
    /\ gen' = "sub_loop"
    /\ features' = <<>>
    /\ UNCHANGED <<pc, envVars, files, dbVars, table, conn, mainVars, loadVars,
                   histVars, region, num_points, coords, polygon,
                   country_config>>

\* One pass of the inner loop (lines 136-165): the feature of the next
\* subregion of the region the outer loop (line 132) is at.
AppendFeature ==
    /\ gen = "sub_loop"
    /\ Len(features) < Len(country_config.regions) * Len(SUBREGIONS)
    /\ LET r == (Len(features) \div Len(SUBREGIONS)) + 1
           k == (Len(features) % Len(SUBREGIONS)) + 1
       IN  features' = Append(features,
                              SubregionFeature(country_config.regions[r],
                                               SUBREGIONS[k]))
    /\ UNCHANGED <<pc, envVars, files, dbVars, table, conn, mainVars, loadVars,
                   histVars, gen, region, num_points, coords, polygon,
                   country_config>>

\* After the loops the collection of the features is returned
\* (lines 167-172).
ReturnSubregions ==
    /\ gen = "sub_loop"
    /\ Len(features) = Len(country_config.regions) * Len(SUBREGIONS)
    /\ gen' = "sub_returned"
    /\ UNCHANGED <<pc, envVars, files, dbVars, table, conn, mainVars, loadVars,
                   histVars, region, num_points, coords, polygon,
                   country_config, features>>

\* -------------------------------------------------------- specifications
\* The region generator has not run.
RegionIdle ==
    /\ gen = "idle"
    /\ region = [code |-> "", name |-> "", center |-> <<0, 0>>, radius_km |-> 0]
    /\ country_config = [name |-> "", regions |-> <<>>]
    /\ features = <<>>
    /\ num_points = 0
    /\ coords = <<>>
    /\ polygon = <<>>

InitCommon ==
    /\ run = 1
    /\ dry_run = FALSE
    /\ keep_files = FALSE
    /\ conn = IdleConn
    /\ cell_idx = 1
    /\ file_idx = 1
    /\ pos = 0
    /\ batch = <<>>
    /\ imported = 0
    /\ skipped = 0
    /\ caller = "loop"
    /\ inserted = 0
    /\ i = 1
    /\ total_imported = 0
    /\ total_skipped = 0
    /\ path = "none"
    /\ table0 = table
    /\ table_open = table
    /\ retained = <<>>
    /\ requests = [c \in Cells |-> 0]
    /\ abort_reason = "none"
    /\ prev_killed = FALSE
    /\ handed = <<>>
    /\ listed = <<>>
    /\ ddl_pending = "none"

\* Before the first run: an empty work directory and a table of rows from
\* the other source, not yet migrated.
Init ==
    /\ pc = "start"
    /\ remote \in [Cells -> Remotes]
    /\ files = [c \in Cells |-> NoFile]
    /\ country = "UGA"
    /\ HAS_S2SPHERE = TRUE
    /\ country_configs = UgandaOnly
    /\ migration_file = FALSE
    /\ migrated = FALSE
    /\ schema = FreshSchema
    /\ evolutions = 0
    /\ s2_cells = <<>>
    /\ connected = FALSE
    /\ table = <<OsmRow(NULL)>>
    /\ downloaded_files = <<>>
    /\ batch_size = DefaultBatchSize
    /\ fetched = [c \in Cells |-> "none"]
    /\ InitCommon
    /\ RegionIdle

LoadStep ==
    \/ ReadRow
    \/ EndOfStream
    \/ BulkInsert
    \/ BulkCommit
    \/ BulkRollback
    \/ RowInsert
    \/ RowCommit
    \/ RowRollback
    \/ BatchReturn

Next ==
    \/ StartRun
    \/ ApplyMigration
    \/ CommitMigration
    \/ Download
    \/ ImportNext
    \/ LoadStep
    \/ CorruptRead
    \/ FinishImport
    \/ Report
    \/ Cleanup
    \/ Kill
    \/ KillDuringDownload
    \/ Restart

Spec == Init /\ [][Next]_vars

\* The object store with a shard for the first two cells of the level.
TwoShardStore ==
    [c \in Cells |->
        IF c = 1 THEN [status |-> "data", rows |-> FallbackShard]
        ELSE IF c = 2 THEN [status |-> "data", rows |-> EdgeShard]
        ELSE [status |-> "absent", rows |-> <<>>]]

\* The table a run may find: without the columns of the migration, or with
\* a source column that was added without a default, its rows holding NULL.
SourceOnlySchema == [columns |-> {"source"}, osm_id_not_null |-> TRUE]

\* Before the first run of the pipeline on a store that holds the two
\* shards: an empty work directory, the migration file present or not, and
\* a table that has no column of the migration or the source column alone.
InitEvolve ==
    /\ pc = "start"
    /\ remote = TwoShardStore
    /\ files = [c \in Cells |-> NoFile]
    /\ country = "UGA"
    /\ HAS_S2SPHERE = TRUE
    /\ country_configs = UgandaOnly
    /\ migration_file \in BOOLEAN
    /\ migrated = FALSE
    /\ schema \in {FreshSchema, SourceOnlySchema}
    /\ evolutions = 0
    /\ s2_cells = <<>>
    /\ connected = FALSE
    /\ table = <<OsmRow(NULL)>>
    /\ downloaded_files = <<>>
    /\ batch_size = DefaultBatchSize
    /\ fetched = [c \in Cells |-> "none"]
    /\ InitCommon
    /\ RegionIdle

SpecEvolve == InitEvolve /\ [][Next]_vars

\* The bounding boxes of a configuration, those without area included.
Boxes ==
    {[min_lat |-> a, max_lat |-> b, min_lon |-> c, max_lon |-> d] :
        a \in 0..MaxDegree, b \in 0..MaxDegree,
        c \in 0..MaxDegree, d \in 0..MaxDegree}

ValidBoxes == {b \in Boxes : b.min_lat <= b.max_lat /\ b.min_lon <= b.max_lon}

\* The contents countries.json may have: no country, one, or two, the
\* bounds of the first any box.
ConfigTables ==
    {[code \in {} |-> [name |-> "", bounds |-> bounds]]}
    \cup {[code \in {"UGA"} |-> [name |-> "Uganda", bounds |-> b]] : b \in ValidBoxes}
    \cup {[code \in {"UGA", "KEN"} |->
              IF code = "UGA" THEN [name |-> "Uganda", bounds |-> b]
              ELSE [name |-> "Kenya", bounds |-> bounds]] : b \in ValidBoxes}

\* main is started with any country argument, on any configuration, with or
\* without s2sphere installed.
InitStart ==
    /\ pc = "start"
    /\ remote = TwoShardStore
    /\ files = [c \in Cells |-> NoFile]
    /\ country \in CountryArgs
    /\ HAS_S2SPHERE \in BOOLEAN
    /\ country_configs \in ConfigTables
    /\ migration_file = FALSE
    /\ migrated = FALSE
    /\ schema = FreshSchema
    /\ evolutions = 0
    /\ s2_cells = <<>>
    /\ connected = FALSE
    /\ table = <<OsmRow(NULL)>>
    /\ downloaded_files = <<>>
    /\ batch_size = DefaultBatchSize
    /\ fetched = [c \in Cells |-> "none"]
    /\ InitCommon
    /\ RegionIdle

\* The start of main up to the connection (lines 328-352), run after run.
NextStart ==
    \/ StartRun
    \/ Restart

SpecStart == InitStart /\ [][NextStart]_vars

\* The ingestion pipeline has not run.
PipelineIdle ==
    /\ pc = "start"
    /\ remote = TwoShardStore
    /\ files = [c \in Cells |-> NoFile]
    /\ country = "UGA"
    /\ HAS_S2SPHERE = TRUE
    /\ country_configs = UgandaOnly
    /\ migration_file = FALSE
    /\ migrated = FALSE
    /\ schema = FreshSchema
    /\ evolutions = 0
    /\ s2_cells = <<>>
    /\ connected = FALSE
    /\ table = <<OsmRow(NULL)>>
    /\ downloaded_files = <<>>
    /\ batch_size = DefaultBatchSize
    /\ fetched = [c \in Cells |-> "none"]
    /\ InitCommon

\* create_circle_polygon is about to be called for a region, with a number
\* of points from 1 to MaxPoints or the default.
InitRegions ==
    /\ PipelineIdle
    /\ gen = "idle"
    /\ region \in Regions
    /\ num_points \in 1..MaxPoints \cup {DefaultNumPoints}
    /\ coords = <<>>
    /\ polygon = <<>>
    /\ country_config = [name |-> "", regions |-> <<>>]
    /\ features = <<>>

NextRegions ==
    \/ CallCircle
    \/ AppendPoint
    \/ CloseRing

SpecRegions == InitRegions /\ [][NextRegions]_vars

\* create_subregion_geojson is about to be called for Uganda
\* (lines 218, 277-284).
InitSubregions ==
    /\ PipelineIdle
    /\ gen = "idle"
    /\ region = [code |-> "", name |-> "", center |-> <<0, 0>>, radius_km |-> 0]
    /\ num_points = 0
    /\ coords = <<>>
    /\ polygon = <<>>
    /\ country_config = Uganda
    /\ features = <<>>

NextSubregions ==
    \/ CallSubregions
    \/ AppendFeature
    \/ ReturnSubregions

SpecSubregions == InitSubregions /\ [][NextSubregions]_vars

\* import_csv_file(conn, filepath, bounds, batch_size) has been called on the
\* downloaded shard of cell 1: any shard of up to MaxRows rows, any batch
\* size, and a migrated table that may hold a row of an earlier load.
InitLoad ==
    /\ pc = "read"
    /\ \E rows \in SeqsUpTo(RowPool, MaxRows) :
          /\ remote = [c \in Cells |-> IF c = 1 THEN [status |-> "data", rows |-> rows]
                                       ELSE [status |-> "absent", rows |-> <<>>]]
          /\ files = [c \in Cells |-> IF c = 1 THEN FullFile(rows) ELSE NoFile]
    /\ country = "UGA"
    /\ HAS_S2SPHERE = TRUE
    /\ country_configs = UgandaOnly
    /\ migration_file = FALSE
    /\ migrated = TRUE
    /\ schema = EvolvedSchema
    /\ evolutions = 1
    /\ s2_cells = compute_s2_cells_for_bounds(bounds, TRUE)
    /\ connected = TRUE
    /\ table \in {<<OsmRow("osm")>>,
                  <<OsmRow("osm"),
                    BuildingRow(BatchRecord(CsvRow("2", "2", "POLYGON(a)", "p1", "1")))>>}
    /\ downloaded_files = <<1>>
    /\ batch_size \in 1..MaxBatchSize
    /\ fetched = [c \in Cells |-> IF c = 1 THEN "downloaded" ELSE "absent"]
    /\ InitCommon
    /\ RegionIdle

NextLoad ==
    \/ LoadStep
    \/ Reload

SpecLoad == InitLoad /\ [][NextLoad]_vars


\* ------------------------------------------------------------ properties
\* The cells of the covering of the country of Spec.
CoveringCells ==
    LET cells == compute_s2_cells_for_bounds(bounds, TRUE)
    IN  {cells[k] : k \in 1..Len(cells)}

IsPrefix(s, t) == Len(s) <= Len(t) /\ SubSeq(t, 1, Len(s)) = s

\* Whether the table holds the building of a batch record.
Holds(tbl, rec) ==
    \E j \in 1..Len(tbl) :
        tbl[j].source = "google" /\ tbl[j].external_id = rec.plus_code

\* The batch records whose geometry is malformed: their insert fails.
Malformed(recs) == {k \in 1..Len(recs) : ~ValidWkt(recs[k].geometry)}

\* The records of recs differ in their plus codes and none is in tbl.
NonConflicting(tbl, recs) ==
    /\ \A k \in 1..Len(recs) : ~Holds(tbl, recs[k])
    /\ \A k, l \in 1..Len(recs) : recs[k].plus_code = recs[l].plus_code => k = l

\* The rows of the open shard read so far.
RowsRead == SubSeq(CurRows, 1, pos)

\* The batch records of the rows the current load has retained.
RetainedRecords == [k \in 1..Len(retained) |-> BatchRecord(retained[k])]

\* C1: when the bulk insert of a batch fails, the bulk attempt is rolled
\* back whole before the first individual insert (no row of it is in the
\* table, no transaction is open); when insert_batch then returns, the table
\* is the table before the call followed by rows built from well-formed
\* records of the batch only, every well-formed record of the batch is in
\* it, no transaction is open, and the load goes on (insert_batch returns).
C1_FallbackIsolatesBadRecords ==
    /\ (pc = "row" /\ i = 1) => (conn = IdleConn /\ table = table0)
    /\ (pc = "batch_done" /\ path = "fallback") =>
          /\ conn = IdleConn
          /\ abort_reason = "none"
          /\ IsPrefix(table0, table)
          /\ \A k \in 1..Len(batch) :
                ValidWkt(batch[k].geometry) => Holds(table, batch[k])
          /\ \A j \in (Len(table0) + 1)..Len(table) :
                \E k \in 1..Len(batch) :
                    /\ ValidWkt(batch[k].geometry)
                    /\ table[j].external_id = batch[k].plus_code
                    /\ table[j].source = "google"
          /\ \A k \in Malformed(batch) :
                \A j \in (Len(table0) + 1)..Len(table) :
                    table[j].external_id # batch[k].plus_code

\* C1's case: a fallback that has returned, with a record that failed and a
\* row that was added.
C1_Witness ==
    /\ pc = "batch_done"
    /\ path = "fallback"
    /\ Malformed(batch) # {}
    /\ Len(table) > Len(table0)

\* C2: a load whose retained records form one batch of N >= 1 well-formed,
\* non-conflicting records and exactly one malformed record reports N
\* inserted rows, and the record whose insert failed as one more skipped row
\* beside those the filter skipped.
C2_OneMalformedCounted ==
    (/\ pc = "loaded"
     /\ run = 1
     /\ Len(retained) <= batch_size
     /\ Len(retained) >= 2
     /\ Cardinality(Malformed(RetainedRecords)) = 1
     /\ NonConflicting(table_open, RetainedRecords))
    => /\ imported = Len(retained) - 1
       /\ imported # 0
       /\ skipped = (pos - Len(retained)) + 1

\* C2's case, and what the code reports for it: the N rows as inserted, the
\* failed record in no count.
C2_Witness ==
    /\ pc = "loaded"
    /\ run = 1
    /\ Len(retained) <= batch_size
    /\ Len(retained) >= 2
    /\ Cardinality(Malformed(RetainedRecords)) = 1
    /\ NonConflicting(table_open, RetainedRecords)
    /\ imported = Len(retained) - 1
    /\ skipped = pos - Len(retained)

C4_OnlyInBoundsRetained ==
    /\ \A k \in 1..Len(retained) :
          /\ bounds.min_lat <= FloatOf[retained[k].latitude]
          /\ FloatOf[retained[k].latitude] <= bounds.max_lat
          /\ bounds.min_lon <= FloatOf[retained[k].longitude]
          /\ FloatOf[retained[k].longitude] <= bounds.max_lon
    /\ \A k \in 1..Len(RowsRead) :
          LET row == RowsRead[k]
          IN  (/\ ParsesAsFloat(row.latitude) /\ ParsesAsFloat(row.longitude)
               /\ row.geometry # ""
               /\ FloatOf[row.latitude] \in bounds.min_lat..bounds.max_lat
               /\ FloatOf[row.longitude] \in bounds.min_lon..bounds.max_lon)
              => \E j \in 1..Len(retained) : retained[j] = row

\* C4's case: a row on an edge of the bounds has been appended and a row
\* outside them has been read and left out.
C4_Witness ==
    /\ \E k \in 1..Len(retained) :
          \/ FloatOf[retained[k].latitude] \in {bounds.min_lat, bounds.max_lat}
          \/ FloatOf[retained[k].longitude] \in {bounds.min_lon, bounds.max_lon}
    /\ \E k \in 1..Len(RowsRead) :
          /\ ParsesAsFloat(RowsRead[k].latitude)
          /\ FloatOf[RowsRead[k].latitude] < bounds.min_lat

\* The rows of a shard that parse and have a well-formed geometry.
AllRowsValid(rows) ==
    \A k \in 1..Len(rows) :
        /\ ParsesAsFloat(rows[k].latitude) /\ ParsesAsFloat(rows[k].longitude)
        /\ ValidWkt(rows[k].geometry)

\* The rows of a shard whose centroid is within the bounds.
InBoundsRows(rows) ==
    {k \in 1..Len(rows) :
        /\ FloatOf[rows[k].latitude] \in bounds.min_lat..bounds.max_lat
        /\ FloatOf[rows[k].longitude] \in bounds.min_lon..bounds.max_lon}

\* C5: a load of a shard whose rows all have a valid geometry and conflict
\* neither with the table nor with each other reports as inserted the number
\* of rows within the bounds and as skipped the number of rows outside them,
\* whatever the number of rows and the batch size.
C5_CountsMatchBounds ==
    (/\ pc = "loaded"
     /\ run = 1
     /\ AllRowsValid(CurRows)
     /\ \A k \in 1..Len(CurRows) : ~Holds(table_open, BatchRecord(CurRows[k]))
     /\ \A k, l \in 1..Len(CurRows) :
           CurRows[k].full_plus_code = CurRows[l].full_plus_code => k = l)
    => /\ imported = Cardinality(InBoundsRows(CurRows))
       /\ skipped = Len(CurRows) - Cardinality(InBoundsRows(CurRows))


\* The plus codes of the rows of the table that the pipeline added.
GoogleRows(tbl) == {j \in 1..Len(tbl) : tbl[j].source = "google"}
GoogleKeys(tbl) == {tbl[j].external_id : j \in GoogleRows(tbl)}

\* The plus codes an uninterrupted run stores when every request succeeds:
\* those of the rows of every shard of the covering that lie within the
\* bounds and have a well-formed geometry.
ExpectedKeys ==
    UNION {{remote[c].rows[k].full_plus_code :
               k \in {l \in 1..Len(remote[c].rows) :
                        /\ RowOutcome(remote[c].rows[l], bounds) = "retained"
                        /\ ValidWkt(remote[c].rows[l].geometry)}} :
           c \in CoveringCells}

InSeq(x, s) == \E k \in 1..Len(s) : s[k] = x

\* C6: a run of the pipeline that follows a killed run, and in which no
\* request fails, is not ended by an exception, and when it is done the
\* table holds exactly the rows of an uninterrupted run, each once.
C6_RestartSafe ==
    (/\ run >= 2
     /\ prev_killed
     /\ ~dry_run
     /\ \A c \in Cells : fetched[c] \notin {"failed", "failed_writing"}) =>
        /\ pc # "aborted"
        /\ pc = "done" =>
              /\ GoogleKeys(table) = ExpectedKeys
              /\ Cardinality(GoogleRows(table)) = Cardinality(ExpectedKeys)

\* C7: no run is ended by a corrupt shard: the error of reading one does
\* not leave main.
C7_CorruptShardNonFatal == ~(pc = "aborted" /\ abort_reason = "CorruptShard")

\* C8: no run is ended by a fetch; a cell whose fetch ended in a 404 or in
\* a failure is not among the files to load; and once the download loop is
\* left, download_file has been called for every cell.
C8_FetchFailureNeverAborts ==
    /\ abort_reason # "DownloadError"
    /\ \A c \in Cells :
          fetched[c] \in {"absent", "failed", "failed_writing"}
              => ~InSeq(c, downloaded_files)
    /\ pc \in {"import", "read", "loaded", "cleanup", "done", "aborted"}
          => \A c \in CoveringCells : fetched[c] # "none"

\* C8's case: the fetch of the first cell failed, that of a later cell found
\* nothing, and the run went on to the import loop.
C8_Witness ==
    /\ pc = "import"
    /\ fetched[1] \in {"failed", "failed_writing"}
    /\ \E c \in Cells : c > 1 /\ fetched[c] = "absent"

\* C9: a call of download_file for a cell whose scratch file exists and is
\* not empty makes no request, leaves every file as it is and reports the
\* shard present; a call for a cell whose file is missing or of zero bytes
\* makes one request.
C9_SkipWhenPresent ==
    [][(pc = "download" /\ pc' # "killed") =>
          /\ files[s2_cells[cell_idx]].kind \in {"partial", "full"} =>
                /\ requests' = requests
                /\ files' = files
                /\ downloaded_files' = Append(downloaded_files, s2_cells[cell_idx])
          /\ files[s2_cells[cell_idx]].kind \in {"none", "empty"} =>
                requests'[s2_cells[cell_idx]] = requests[s2_cells[cell_idx]] + 1]_vars

\* C9's case: a cell's file was found present, reported so and no request
\* was made for it, and a request was made for a cell without a file.
C9_Witness ==
    /\ \E c \in Cells :
          /\ fetched[c] = "reused"
          /\ requests[c] = 0
          /\ InSeq(c, downloaded_files)
    /\ \E c \in Cells : requests[c] = 1

\* C10: when a run that is no dry run and keeps no files is done, no scratch
\* file that the run created or reused is left.
C10_CleanupRemovesAll ==
    (pc = "done" /\ ~dry_run /\ ~keep_files) =>
        \A c \in Cells :
            fetched[c] \in {"reused", "downloaded", "failed_writing"}
                => ~Exists(files[c])

\* The positions of main inside apply_migration and inside insert_batch.
MigrationPcs == {"migrate", "migrate_commit"}
InsertPcs == {"bulk", "bulk_commit", "bulk_rollback", "row", "row_commit",
              "row_rollback", "batch_done"}

\* C11: a dry run executes no statement of the migration and attempts no
\* insert; no step of it changes the table, its schema or a file that is
\* there and not empty; and when it is done every file it downloaded or
\* found present is on disk.
C11_DryRunChangesNothing ==
    /\ [](dry_run =>
            /\ pc \notin MigrationPcs \cup InsertPcs \cup {"import", "read", "loaded", "cleanup"}
            /\ evolutions = 0
            /\ ddl_pending = "none"
            /\ conn = IdleConn)
    /\ [][dry_run =>
            /\ table' = table
            /\ schema' = schema
            /\ \A c \in Cells : ExistsNonEmpty(files[c]) => files'[c] = files[c]]_vars
    /\ [](pc = "done" /\ dry_run =>
            \A c \in Cells :
                fetched[c] \in {"reused", "downloaded"} => ExistsNonEmpty(files[c]))

\* C11's case: a dry run is done on a table an earlier run loaded rows
\* into, with one file found present and one downloaded.
C11_Witness ==
    /\ pc = "done"
    /\ dry_run
    /\ GoogleRows(table) # {}
    /\ \E c \in Cells : fetched[c] = "reused"
    /\ \E c \in Cells : fetched[c] = "downloaded"

\* C12: in a run that is not a dry run, whenever a shard is being loaded or
\* has been loaded the migration has been committed exactly once in this
\* run, with no statement of it pending, and the table has the evolved
\* schema; once the table has the evolved schema no step takes it away.
C12_MigrationCommittedBeforeInserts ==
    /\ [](~dry_run /\ pc \in InsertPcs \cup {"import", "read", "loaded", "cleanup", "done"} =>
            /\ evolutions = 1
            /\ ddl_pending = "none"
            /\ schema = EvolvedSchema)
    /\ [](pc \in InsertPcs /\ conn.status # "idle" => ddl_pending = "none" /\ evolutions = 1)
    /\ [][schema = EvolvedSchema => schema' = EvolvedSchema]_vars

\* C12's case: a failed insert is being rolled back after the migration of
\* this run was committed.
C12_Witness ==
    /\ pc \in {"bulk_rollback", "row_rollback"}
    /\ ~dry_run
    /\ evolutions = 1
    /\ schema = EvolvedSchema

\* The migration apply_migration executes in this installation.
MigrationSql(sch, tbl) ==
    IF migration_file THEN MigrationFileSql(sch, tbl)
    ELSE InlineMigrationSql(sch, tbl)

\* C13: the migration never raises; its commit on a table it was already
\* applied to changes neither the schema nor a stored row; and applied to
\* its own result it gives that result again.
C13_MigrationIdempotent ==
    /\ [](abort_reason # "MigrationError")
    /\ [][migrated /\ pc = "migrate_commit" /\ pc' # "killed" =>
            schema' = schema /\ table' = table]_vars
    /\ [](LET once == MigrationSql(schema, table)
              twice == MigrationSql(once.schema, once.table)
          IN  ~once.raised /\ ~twice.raised
              /\ twice.schema = once.schema /\ twice.table = once.table)

\* C13's case: the second run has applied the migration to the table the
\* first run evolved and loaded rows into.
C13_Witness ==
    /\ run = 2
    /\ ~dry_run
    /\ pc = "download"
    /\ evolutions = 1
    /\ migrated
    /\ GoogleRows(table) # {}

\* Whether the country argument names a country of the configuration.
Resolvable == upper[country] \in DOMAIN country_configs

Degenerate(b) == b.min_lat = b.max_lat \/ b.min_lon = b.max_lon

\* C15: a run whose country has a bounding box without area ends with the
\* unsupported-geometry error and holds no cell set.
C15_DegenerateBoxRejected ==
    [](pc # "start" /\ Resolvable /\ HAS_S2SPHERE
       /\ Degenerate(country_configs[upper[country]].bounds) =>
            abort_reason = "UnsupportedGeometry" /\ s2_cells = <<>>)

\* C16: a country argument that names no configured country ends the run
\* with the unknown-country error, which lists every configured code, with
\* no connection made and the files, the table, its schema and the
\* requests as they were; an argument that names a configured country in
\* any letter case never gives that error.
C16_UnknownCountryListsCodes ==
    /\ [](pc # "start" /\ ~Resolvable =>
            /\ pc = "exited"
            /\ abort_reason = "UnknownCountry"
            /\ {listed[k] : k \in 1..Len(listed)} = DOMAIN country_configs
            /\ Len(listed) = Cardinality(DOMAIN country_configs)
            /\ ~connected
            /\ evolutions = 0
            /\ s2_cells = <<>>)
    /\ [][pc = "start" /\ ~Resolvable =>
            /\ pc' = "exited"
            /\ UNCHANGED <<files, dbVars, table, conn, requests, fetched>>]_vars
    /\ [](Resolvable => abort_reason # "UnknownCountry" /\ pc # "exited")

\* C16's case: the run for an unknown code has ended with the two configured
\* codes listed.
C16_Witness ==
    /\ pc = "exited"
    /\ country = "xyz"
    /\ Len(listed) = 2

\* The records of a sequence of batches, in order.
RECURSIVE Flatten(_)
Flatten(batches) ==
    IF batches = <<>> THEN <<>>
    ELSE Head(batches) \o Flatten(Tail(batches))

\* C17: the batches handed to insert_batch, followed by the buffer while it
\* waits to be handed over, are the retained records in file order, each
\* once; every batch handed over is non-empty and holds batch_size records,
\* except the last one when it was flushed at the end of the stream, which
\* holds fewer; the buffer never holds more than batch_size records.
C17_BatchesPartitionRetained ==
    /\ Flatten(handed) \o (IF pc \in {"read", "bulk"} THEN batch ELSE <<>>)
         = RetainedRecords
    /\ \A k \in 1..Len(handed) :
          /\ handed[k] # <<>>
          /\ Len(handed[k]) <= batch_size
          /\ Len(handed[k]) < batch_size =>
                k = Len(handed) /\ caller = "final" /\ pos = Len(CurRows)
    /\ Len(batch) <= batch_size
    /\ pc = "bulk" => batch # <<>>
    /\ pc = "loaded" => Flatten(handed) = RetainedRecords

\* C17's case: a load has ended after a batch of batch_size records and a
\* shorter final one.
C17_Witness ==
    /\ pc = "loaded"
    /\ Len(handed) = 2
    /\ Len(handed[1]) = batch_size
    /\ Len(handed[2]) < batch_size

\* C18: no row ends the load, and every row read that was not retained has
\* added one to the skipped count.
C18_RowErrorsNeverFatal ==
    /\ abort_reason # "TypeError"
    /\ pc \in {"read", "bulk", "loaded"} \cup InsertPcs =>
          skipped = Cardinality({k \in 1..pos :
                                    RowOutcome(CurRows[k], bounds) # "retained"})

\* The values a row stores under a schema: its base fields, and its value in
\* each column of the migration the table has.
StoredValues(row, sch) ==
    [osm_id |-> row.osm_id, osm_type |-> row.osm_type, geometry |-> row.geometry,
     source |-> IF "source" \in sch.columns THEN row.source ELSE "no column",
     external_id |-> IF "external_id" \in sch.columns THEN row.external_id
                     ELSE "no column",
     confidence |-> IF "confidence" \in sch.columns THEN row.confidence
                    ELSE [null |-> TRUE, val |-> -1],
     area_m2 |-> IF "area_m2" \in sch.columns THEN row.area_m2
                 ELSE [null |-> TRUE, val |-> -1]]

\* C19: no step of a run removes a row of the table or changes a value a row
\* stores, and every row a step adds has the provenance 'google'.
C19_StoredRowsNeverChange ==
    [][/\ Len(table') >= Len(table)
       /\ \A j \in 1..Len(table) :
             StoredValues(table'[j], schema) = StoredValues(table[j], schema)
       /\ \A j \in (Len(table) + 1)..Len(table') : table'[j].source = "google"]_vars

\* C20: what create_circle_polygon returns is one ring of num_points + 1
\* pairs, 33 for the default, whose last pair is its first pair.
C20_ClosedRing ==
    gen = "returned" =>
        /\ Len(polygon) = 1
        /\ Len(polygon[1]) = num_points + 1
        /\ num_points = DefaultNumPoints => Len(polygon[1]) = 33
        /\ \A k \in 1..Len(polygon[1]) : Len(polygon[1][k]) = 2
        /\ polygon[1][Len(polygon[1])] = polygon[1][1]
        /\ SubSeq(polygon[1], 1, num_points) = coords

\* C20's case: the polygon of the Kampala region with the default number of
\* points has been returned, a ring that starts east of the center.
C20_Witness ==
    /\ gen = "returned"
    /\ region.code = "KAM"
    /\ num_points = DefaultNumPoints
    /\ Len(polygon[1]) = 33
    /\ polygon[1][1][1] > region.center[1]
    /\ polygon[1][1][2] = region.center[2]

\* The nine directional subregion codes.
DirectionalCodes == {"C", "N", "S", "E", "W", "NW", "NE", "SW", "SE"}

\* C21: the collection create_subregion_geojson returns holds, for every
\* region R of the configuration and every one of the nine subregion codes
\* S, exactly one feature with the code R-S, and it has the parent code R
\* and the level 2; it holds no other feature; the center of the feature of
\* S = N has the longitude of the center of R and a higher latitude.
C21_SubregionFeatures ==
    gen = "sub_returned" =>
        /\ {SUBREGIONS[k].code : k \in 1..Len(SUBREGIONS)} = DirectionalCodes
        /\ Len(features) = 9 * Len(country_config.regions)
        /\ \A r \in 1..Len(country_config.regions) :
              \A S \in DirectionalCodes :
                 LET R == country_config.regions[r]
                     hits == {j \in 1..Len(features) :
                                 features[j].code = R.code \o "-" \o S}
                 IN  /\ Cardinality(hits) = 1
                     /\ \A j \in hits :
                           /\ features[j].parent_code = R.code
                           /\ features[j].subregion_code = S
                           /\ features[j].level = 2
                           /\ S = "N" =>
                                 /\ features[j].center_lon = R.center[1]
                                 /\ features[j].center_lat > R.center[2]

\* C21's case: the collection for Uganda has been returned and holds the
\* feature KAM-N, north of the center of Kampala.
C21_Witness ==
    /\ gen = "sub_returned"
    /\ Len(features) = 108
    /\ \E j \in 1..Len(features) :
          /\ features[j].code = "KAM-N"
          /\ features[j].parent_code = "KAM"
          /\ features[j].center_lon = 32582500
          /\ features[j].center_lat > 347600

\* The state of the batch insert_batch is working on: Pending before the
\* bulk statement, BulkAttempted after it, RolledBack after the rollback of
\* a failed attempt, RowFallback within the loop over the records, and
\* Committed or CommittedPartial when insert_batch has returned.
BatchState ==
    CASE pc = "bulk" -> "Pending"
      [] pc \in {"bulk_commit", "bulk_rollback"} -> "BulkAttempted"
      [] pc = "row" /\ i = 1 -> "RolledBack"
      [] pc \in {"row", "row_commit", "row_rollback"} -> "RowFallback"
      [] pc = "batch_done" /\ path = "bulk" -> "Committed"
      [] pc = "batch_done" -> "CommittedPartial"
      [] OTHER -> "None"

\* The changes of state a batch may make.
BatchTransitions ==
    { <<"None", "Pending">>, <<"Pending", "BulkAttempted">>,
      <<"BulkAttempted", "Committed">>, <<"BulkAttempted", "RolledBack">>,
      <<"RolledBack", "RowFallback">>, <<"RowFallback", "RowFallback">>,
      <<"RowFallback", "CommittedPartial">>,
      <<"Committed", "None">>, <<"CommittedPartial", "None">>,
      <<"None", "None">> }

\* Whether the bulk statement of the batch fails on the table as it was when
\* insert_batch was called.
BulkFails == execute_values(IdleConn, table0, batch, PageSize).raised

\* C22: a batch changes state along Pending, BulkAttempted, Committed or
\* along Pending, BulkAttempted, RolledBack, RowFallback, CommittedPartial
\* only; a record of a batch is inserted on its own only when the bulk
\* insert of the batch failed, and only with no transaction open, the first
\* one on the table as it was before the bulk attempt; a batch whose bulk
\* insert succeeded is committed as the bulk statement left it; and when
\* insert_batch has returned no transaction is open.
C22_BatchStateMachine ==
    /\ [][(<<BatchState, BatchState'>> \in BatchTransitions)]_vars
    /\ [](pc \in {"row", "row_commit", "row_rollback"} =>
             path = "fallback" /\ BulkFails)
    /\ [](pc = "row" => conn = IdleConn)
    /\ [](BatchState = "RolledBack" => table = table0)
    /\ [](BatchState = "Committed" =>
             ~BulkFails /\ table = table0 \o RowsAdded(table0, batch))
    /\ [](pc = "batch_done" => conn = IdleConn)
    /\ [](pc \in {"read", "loaded"} => conn = IdleConn)

\* C22's case: insert_batch has returned from the fallback with some but
\* not all records of the batch inserted.
C22_Witness ==
    /\ BatchState = "CommittedPartial"
    /\ Len(batch) >= 2
    /\ inserted >= 1
    /\ inserted < Len(batch)
    /\ conn = IdleConn

\* C23: when insert_batch has returned, the count it returns is the number
\* of rows the call added to the table, after the bulk insert and after the
\* fallback, whatever the length of the batch.
C23_ReturnedCountIsRowsAdded ==
    pc = "batch_done" => inserted = Len(table) - Len(table0)

\* C24: a scratch file that is not empty is the complete shard of its cell,
\* and the file of a cell download_file reported present is the complete
\* shard for as long as it is on disk.
C24_NonEmptyFileIsComplete ==
    \A c \in Cells :
        /\ ExistsNonEmpty(files[c]) => files[c] = FullFile(remote[c].rows)
        /\ (fetched[c] \in {"reused", "downloaded"} /\ Exists(files[c])) =>
              files[c] = FullFile(remote[c].rows)

====
